---- MODULE Spec2Model ----
(***************************************************************************)
(* A model of the PDF Knowledge Assistant's retrieval-and-generation       *)
(* pipeline: the KnowledgeBase index, the ChatInterface (synchronous and   *)
(* streaming answers), the StreamingCallbackHandler's token queue that     *)
(* bridges the generation thread to the event loop, and the server-sent    *)
(* event stream built on top of it by the API.                             *)
(* A second specification, SpecKB, follows the server through the          *)
(* processing of PDFs: PDFProcessor, KnowledgeBase.add_documents with its  *)
(* save to disk, the process-pdfs request and command, and the new         *)
(* ChatInterface the request ends with.  SpecBuild is the processing of    *)
(* PDFs alone while another process loads the index from the same          *)
(* directory, SpecSeq the chat requests served one at a time with clients  *)
(* that may go away, and SpecSplit the text splitter applied to one page.  *)
(***************************************************************************)
EXTENDS Integers, Sequences, FiniteSets, TLC

(* ------------------------------ bounds -------------------------------- *)

\* Most tokens the model generates, for all the prompts together, when
\* requests may overlap.
MaxTotal == 2

\* Longest answer, in tokens, the model generates for one prompt when the
\* requests come one at a time and the clients may go away, or while PDFs
\* are processed.
MaxTokens == 1

\* Longest answer, in tokens, when the requests come one after the other.
MaxAnswer == 3

\* Most process-pdfs calls one server handles.
MaxBuilds == 1

\* Longest page text given to the text splitter, in characters.
MaxText == 5

\* Largest chunk_size the text splitter is built with.
MaxSize == 3

(* ------------------------- program constants --------------------------- *)

\* similarity_search(query, k=4)
TopK == 4

(* ------------------------------- data ---------------------------------- *)

\* Python's None (streaming_llm).
None == "None"

\* api.chat_interface = None: no ChatInterface object.
NoInterface == 0

\* The ChatInterface objects of a process, in the order they are made: the
\* one made when the process starts and one by each process-pdfs request.
Interfaces == 1..(MaxBuilds + 1)

\* A chunk whose metadata holds no "source" key.
NoSource == "-"

\* The user questions; a question is identified with its embedding.
Queries == {1, 2}

\* The chat-stream requests: two, the fewest that can overlap.
Sessions == {1, 2}

\* A chunk: where it comes from and where its embedding lies.
Chunk(src, v) == [source |-> src, vec |-> v]

\* The index a process can find persisted when it starts.  Question 1 is
\* nearest to four chunks without a source; question 2 is nearest to chunks
\* of two files, one of them twice.
StoredIndex ==
    << Chunk(NoSource, 1), Chunk(NoSource, 1), Chunk(NoSource, 1),
       Chunk(NoSource, 1), Chunk("a.pdf", 2), Chunk("b.pdf", 2),
       Chunk("a.pdf", 2) >>

\* KnowledgeBase.vector_store: None, or a FAISS store holding chunks.
NoStore == [loaded |-> FALSE, chunks |-> <<>>]

Store(chunks) == [loaded |-> TRUE, chunks |-> chunks]

\* A file of the index directory: absent, unreadable, or holding data.
NoFile == [st |-> "missing", data |-> <<>>]

Corrupt == [st |-> "corrupt", data |-> <<>>]

FileOf(data) == [st |-> "ok", data |-> data]

\* No index directory.
NoDisk == [dir |-> FALSE, faiss |-> NoFile, pkl |-> NoFile]

\* index.faiss holds the vectors, index.pkl the docstore with the position of
\* each document in the index.
Vectors(chunks) == [i \in DOMAIN chunks |-> chunks[i].vec]

Docstore(chunks) == [i \in DOMAIN chunks |-> chunks[i].source]

\* The directory after a complete save_local of an index.
Saved(chunks) ==
    [dir |-> TRUE, faiss |-> FileOf(Vectors(chunks)), pkl |-> FileOf(Docstore(chunks))]

\* The end signal on_llm_end puts on the queue (None in the code); a token
\* is <<s, i>>: the i-th token the model generated for request s.
END == <<0, 0>>

NoToken == <<0, 0>>

(* ------------------------------ state ---------------------------------- *)

VARIABLES
    entry,          \* the program: "api" is the server of api.py; "chat"
                    \* and "direct" are callers that built
                    \* ChatInterface(KnowledgeBase()) themselves: "chat"
                    \* asks for synchronous answers, "direct" for both kinds
    vector_store,   \* KnowledgeBase.vector_store: NoStore or the chunks held
    chat_interface, \* the ChatInterface in use: NoInterface or the object
    streaming_llm,  \* per ChatInterface: streaming_llm, None or "llm"
    current_source_docs, \* per ChatInterface: current_source_docs
    queue,          \* per ChatInterface: streaming_handler.queue, the
                    \* items not yet taken
    getters,        \* per ChatInterface: queue._getters, the consumers
                    \* waiting, oldest first
    sess,           \* per request: the response generator's position and
                    \* locals (ci is the ChatInterface whose
                    \* get_streaming_response it iterates), the events
                    \* sent so far, and (history) whether the request came
                    \* after a failed generation
    worker,         \* per request: the thread running streaming_llm.invoke
    answer,         \* what the last get_response call returned or raised
    disk,           \* data/embeddings/faiss_index: the directory and the two
                    \* files FAISS.save_local writes into it
    job,            \* the process-pdfs call: its position, its locals and
                    \* (history) what it started from and how it ended
    reader,         \* another process that built a KnowledgeBase from the
                    \* same directory: what its _load_vector_store gave
    splitter        \* PDFProcessor.text_splitter at work: its parameters,
                    \* the page text it is given and the chunks it returned

vars == << entry, vector_store, chat_interface, streaming_llm,
           current_source_docs, queue, getters, sess, worker, answer,
           disk, job, reader, splitter >>

(* ----------------------------- helpers --------------------------------- *)

Range(f) == {f[i] : i \in DOMAIN f}

RECURSIVE Without(_, _)
\* list.remove(x) where x occurs at most once
Without(seq, x) ==
    IF seq = <<>> THEN <<>>
    ELSE IF Head(seq) = x THEN Tail(seq)
    ELSE <<Head(seq)>> \o Without(Tail(seq), x)

\* The orders in which list(set(...)) can enumerate a set: the order of a
\* Python set of strings depends on the process's hash seed.
Orders(S) ==
    {f \in [1..Cardinality(S) -> S] : \A i, j \in 1..Cardinality(S) : f[i] = f[j] => i = j}

Distance(c, q) == IF c.vec >= q THEN c.vec - q ELSE q - c.vec

RECURSIVE Nearest(_, _, _, _)
\* The k chunks nearest to q, nearest first, the earlier-inserted first among
\* equally near ones; taken is the set of positions already returned.
Nearest(index, q, k, taken) ==
    IF k = 0 \/ taken = DOMAIN index THEN <<>>
    ELSE LET left == DOMAIN index \ taken
             best == CHOOSE i \in left : \A j \in left :
                        \/ Distance(index[i], q) < Distance(index[j], q)
                        \/ Distance(index[i], q) = Distance(index[j], q) /\ i <= j
         IN  <<index[best]>> \o Nearest(index, q, k - 1, taken \cup {best})

\* vector_store.similarity_search(query, k)
similarity_search(index, q, k) == Nearest(index, q, k, {})

\* KnowledgeBase.check_knowledge_base_exists
check_knowledge_base_exists == vector_store # NoStore

\* A variant that reports an index whether or not one is loaded.
AlwaysReady == TRUE

\* `if not self.knowledge_base.check_knowledge_base_exists(): raise ...`, the
\* first statement of get_response and of get_streaming_response.
Ready == check_knowledge_base_exists

\* The loop over the retrieved documents that collects metadata["source"].
RECURSIVE SourcesOf(_)
SourcesOf(docs) ==
    IF docs = <<>> THEN <<>>
    ELSE (IF Head(docs).source # NoSource THEN <<Head(docs).source>> ELSE <<>>)
         \o SourcesOf(Tail(docs))

\* A variant without set(): the sources as collected.
ListedSources(docs) == {SourcesOf(docs)}

\* list(set(sources)): every order the distinct sources can come out in.
UniqueSources(docs) == Orders(Range(SourcesOf(docs)))

(* ------------------------- server-sent events -------------------------- *)

\* "data: <token>": src is the sources value get_streaming_response yielded
\* together with the token (the event's text carries the token only).
TokenEvent(tok, src) == [t |-> "token", tok |-> tok, src |-> src, msg |-> ""]

\* "data: SOURCES:<a>, <b>"
SourcesEvent(src) == [t |-> "sources", tok |-> NoToken, src |-> src, msg |-> ""]

\* "data: Error: <message>"
ErrorEvent(m) == [t |-> "error", tok |-> NoToken, src |-> <<>>, msg |-> m]

\* "data: Knowledge base not initialized...", "data: Knowledge base not found..."
MessageEvent(m) == [t |-> "message", tok |-> NoToken, src |-> <<>>, msg |-> m]

\* "data: [DONE]"
DoneEvent == [t |-> "done", tok |-> NoToken, src |-> <<>>, msg |-> ""]

(* ------------------------ ingestion and the disk ------------------------ *)

\* A PDF of data/pdfs: its file name, whether PyPDFLoader and the splitter
\* get through it, and the embeddings of the chunks it splits into.
Pdf(name, ok, vecs) == [name |-> name, ok |-> ok, vecs |-> vecs]

\* The states of data/pdfs when PDFs are processed, in glob order: no PDF,
\* only an unreadable one, readable PDFs around an unreadable one.
Directories ==
    { <<>>,
      << Pdf("x.pdf", FALSE, <<2>>) >>,
      << Pdf("c.pdf", TRUE, <<2>>), Pdf("x.pdf", FALSE, <<2>>),
         Pdf("d.pdf", TRUE, <<1, 2>>) >> }

\* A variant that returns the chunks of a document it could not process.
process_pdf_partial(pdf) ==
    [i \in DOMAIN pdf.vecs |-> Chunk(pdf.name, pdf.vecs[i])]

\* PDFProcessor.process_pdf: the chunks of the document, each with the file
\* name as its source; [] when loading or splitting raises.
process_pdf(pdf) ==
    IF pdf.ok THEN [i \in DOMAIN pdf.vecs |-> Chunk(pdf.name, pdf.vecs[i])]
    ELSE <<>>

RECURSIVE process_directory(_)
\* PDFProcessor.process_directory: all_documents.extend(process_pdf(f)) for
\* every file of the directory.
process_directory(pdfs) ==
    IF pdfs = <<>> THEN <<>>
    ELSE process_pdf(Head(pdfs)) \o process_directory(Tail(pdfs))

Min(a, b) == IF a <= b THEN a ELSE b

\* The source shown for a vector of the index whose document is not in the
\* docstore.
Pending == "?"

\* FAISS.load_local: reads index.faiss, then index.pkl, and checks nothing:
\* the store holds the vectors of index.faiss, and a document is found
\* through its position in the index.  It raises when a file is missing or
\* cannot be read.
load_local(d) ==
    Store([i \in DOMAIN d.faiss.data |->
             Chunk(IF i <= Len(d.pkl.data) THEN d.pkl.data[i] ELSE Pending,
                   d.faiss.data[i])])

CanLoad(d) == d.faiss.st = "ok" /\ d.pkl.st = "ok"

\* A variant that catches only a missing file.
load_catching_missing(d) ==
    IF ~d.dir THEN [ret |-> "False", store |-> NoStore]
    ELSE IF CanLoad(d) THEN [ret |-> "True", store |-> load_local(d)]
    ELSE IF d.faiss.st = "missing" \/ d.pkl.st = "missing"
    THEN [ret |-> "False", store |-> NoStore]
    ELSE [ret |-> "raised", store |-> NoStore]

\* KnowledgeBase._load_vector_store, called by __init__ after
\* `self.vector_store = None`: what it returns ("raised" for an exception
\* that leaves it) and the vector_store it leaves.
load_vector_store(d) ==
    IF ~d.dir THEN [ret |-> "False", store |-> NoStore]
    ELSE IF CanLoad(d) THEN [ret |-> "True", store |-> load_local(d)]
    ELSE [ret |-> "False", store |-> NoStore]

\* The process-pdfs call: pc is where it stands, n the calls made so far;
\* force_rebuild, pdfs and documents are its arguments and locals.  History:
\* the vector_store and the disk it started from, the index add_documents is
\* to produce, whether the save failed, how add_documents ended ("returned",
\* "raised") and how the call ended ("rejected", "raised", "ok").
NoJob ==
    [pc |-> "idle", n |-> 0, force_rebuild |-> FALSE, pdfs |-> <<>>,
     documents |-> <<>>, before |-> NoStore, disk_before |-> NoDisk,
     target |-> <<>>, save_failed |-> FALSE, add |-> "none", result |-> "none"]

\* The other process: where its load stands ("idle", "index_read" between
\* the two files, "up"), what it returned and left, and (history) the files
\* as it found them, the number of process-pdfs calls made when it began,
\* whether a call was changing the index meanwhile, and the complete
\* indexes before and after that call.
NoReader ==
    [pc |-> "idle", ret |-> "False", store |-> NoStore, found |-> NoDisk,
     n |-> 0, during |-> FALSE, previous |-> NoStore, next |-> NoStore]

(* --------------------------- the text splitter -------------------------- *)

\* A page text is a sequence of characters; these are the ones that matter
\* to the splitter: a letter, a blank and a newline.
Chars == {"a", " ", "\n"}

\* What str.strip() removes.
Whitespace == {" ", "\n"}

\* The page texts given to the splitter.
Texts == UNION {[1..n -> Chars] : n \in 0..MaxText}

\* RecursiveCharacterTextSplitter's default separators: "\n\n", "\n", " ", "".
Separators == << <<"\n", "\n">>, <<"\n">>, <<" ">>, <<>> >>

\* A piece of the text: the characters from..to.
Piece(from, to) == [from |-> from, to |-> to]

\* len(piece)
PLen(p) == p.to - p.from + 1

RECURSIVE Matches(_, _, _, _)
\* The places in t[i..b] where re.split finds sep, left to right, each
\* match starting after the one before it ends.
Matches(t, i, b, sep) ==
    IF i + Len(sep) - 1 > b THEN <<>>
    ELSE IF SubSeq(t, i, i + Len(sep) - 1) = sep
    THEN <<i>> \o Matches(t, i + Len(sep), b, sep)
    ELSE Matches(t, i + 1, b, sep)

\* _split_text_with_regex with keep_separator=True: the text before the first
\* separator, then each separator with the text that follows it; empty
\* strings are dropped.  With the separator "" it is list(text).
split_text_with_regex(t, a, b, sep) ==
    IF sep = <<>> THEN [i \in 1..(b - a + 1) |-> Piece(a + i - 1, a + i - 1)]
    ELSE LET starts == Matches(t, a, b, sep)
             n == Len(starts)
         IN  IF n = 0 THEN (IF a <= b THEN << Piece(a, b) >> ELSE <<>>)
             ELSE (IF starts[1] > a THEN << Piece(a, starts[1] - 1) >> ELSE <<>>)
                  \o [k \in 1..n |->
                        Piece(starts[k], IF k < n THEN starts[k + 1] - 1 ELSE b)]

\* _join_docs: the pieces joined (they follow each other in the text) and
\* stripped; nothing when only whitespace is left.
join_docs(t, cur) ==
    IF cur = <<>> THEN <<>>
    ELSE LET a == cur[1].from
             b == cur[Len(cur)].to
             solid == {i \in a..b : t[i] \notin Whitespace}
         IN  IF solid = {} THEN <<>>
             ELSE << Piece(CHOOSE i \in solid : \A j \in solid : i <= j,
                           CHOOSE i \in solid : \A j \in solid : i >= j) >>

RECURSIVE DropFront(_, _, _, _, _)
\* _merge_splits after a chunk is emitted: pieces leave the front while they
\* are longer than the overlap together or the next piece does not fit.
DropFront(cur, total, len, size, overlap) ==
    IF total > overlap \/ (total + len > size /\ total > 0)
    THEN DropFront(Tail(cur), total - PLen(Head(cur)), len, size, overlap)
    ELSE [cur |-> cur, total |-> total]

RECURSIVE merge_splits(_, _, _, _, _, _, _)
\* _merge_splits(splits, "") from the state (docs, current_doc, total).
merge_splits(t, splits, docs, cur, total, size, overlap) ==
    IF splits = <<>> THEN docs \o join_docs(t, cur)
    ELSE LET d == Head(splits)
             len == PLen(d)
         IN  IF total + len > size /\ cur # <<>>
             THEN LET kept == DropFront(cur, total, len, size, overlap)
                  IN  merge_splits(t, Tail(splits), docs \o join_docs(t, cur),
                                   Append(kept.cur, d), kept.total + len, size, overlap)
             ELSE merge_splits(t, Tail(splits), docs, Append(cur, d), total + len,
                               size, overlap)

\* The separators from the first one found in t[a..b] on ("" is always found).
RECURSIVE FromFirstFound(_, _, _, _)
FromFirstFound(t, a, b, seps) ==
    IF Len(seps) = 1 \/ Head(seps) = <<>> \/ Matches(t, a, b, Head(seps)) # <<>>
    THEN seps
    ELSE FromFirstFound(t, a, b, Tail(seps))

RECURSIVE split_text(_, _, _, _, _, _)
RECURSIVE SplitLoop(_, _, _, _, _, _, _)
\* The loop of _split_text over the splits: pieces shorter than chunk_size
\* are collected and merged; a longer one is split with the separators left,
\* or kept as it is when there is none.
SplitLoop(t, splits, good, final, rest, size, overlap) ==
    IF splits = <<>>
    THEN final \o merge_splits(t, good, <<>>, <<>>, 0, size, overlap)
    ELSE IF PLen(Head(splits)) < size
    THEN SplitLoop(t, Tail(splits), Append(good, Head(splits)), final, rest, size, overlap)
    ELSE SplitLoop(t, Tail(splits), <<>>,
                   final \o merge_splits(t, good, <<>>, <<>>, 0, size, overlap)
                         \o (IF rest = <<>> THEN << Head(splits) >>
                             ELSE split_text(t, Head(splits).from, Head(splits).to,
                                             rest, size, overlap)),
                   rest, size, overlap)

\* RecursiveCharacterTextSplitter._split_text(text, separators) on t[a..b]:
\* the chunks, each as the piece of the text it holds.
split_text(t, a, b, seps, size, overlap) ==
    LET found == FromFirstFound(t, a, b, seps)
    IN  SplitLoop(t, split_text_with_regex(t, a, b, Head(found)), <<>>, <<>>,
                  Tail(found), size, overlap)

\* The splitter before it is given a page.
NoSplitter ==
    [pc |-> "idle", text |-> <<>>, chunk_size |-> 0, chunk_overlap |-> 0,
     chunks |-> <<>>]

(* ------------------------------- Init ---------------------------------- *)

NoSession ==
    [pc |-> "idle", query |-> 0, ci |-> NoInterface, docs |-> <<>>,
     unique_sources |-> <<>>, collected_sources |-> <<>>, events |-> <<>>,
     after_failure |-> FALSE]

\* The attributes of the ChatInterface objects before their first use.
NewInterfaces ==
    /\ streaming_llm = [c \in Interfaces |-> None]
    /\ current_source_docs = [c \in Interfaces |-> <<>>]
    /\ queue = [c \in Interfaces |-> <<>>]
    /\ getters = [c \in Interfaces |-> <<>>]

\* The generation thread of a request: where it stands ("ending": inside
\* on_llm_end), the tokens it has put, and the getter its put_nowait has
\* taken out of _getters and is about to resolve (0: none).
NoWorker == [st |-> "none", pushed |-> 0, waking |-> 0]

NoAnswer == [status |-> "none", query |-> 0, docs |-> <<>>, sources |-> <<>>]

\* KnowledgeBase.__init__ and _load_vector_store: the index found on disk, or
\* None when there is none or it cannot be read.
\* api.startup_event: the chat interface exists iff the index was loaded.
\* The other callers (main.py's chat, a user of the classes) build the
\* ChatInterface themselves, whatever the knowledge base holds.  A caller
\* that iterates stream_chat_response itself matters only without an index:
\* with one, its streams are the api's from "start" on.
Init ==
    /\ entry \in {"api", "chat", "direct"}
    /\ vector_store \in {NoStore, Store(StoredIndex)}
    /\ entry = "direct" => vector_store = NoStore
    /\ chat_interface =
         IF entry # "api" \/ vector_store # NoStore THEN 1 ELSE NoInterface
    /\ NewInterfaces
    /\ sess = [s \in Sessions |-> NoSession]
    /\ worker = [s \in Sessions |-> NoWorker]
    /\ answer = NoAnswer
    /\ disk = IF vector_store = NoStore THEN NoDisk ELSE Saved(vector_store.chunks)
    /\ job = NoJob
    /\ reader = NoReader
    /\ splitter = NoSplitter

(* --------------------------- the token queue --------------------------- *)

\* No coroutine is between two suspension points: the event loop is free to
\* run another task.  get() checks self.empty() and only then appends its
\* future to _getters; the generation threads run meanwhile.
\* A variant in which the build is handed to a worker thread.
process_pdfs_in_thread == FALSE

\* api.process_pdfs is an `async def` without an await: from its first
\* statement to its return it runs on the event loop.
process_pdfs_on_loop == entry = "api"

\* The event loop is inside the process-pdfs handler.
LoopInHandler == process_pdfs_on_loop /\ job.pc # "idle"

LoopIdle == (\A s \in Sessions : sess[s].pc # "reg") /\ ~LoopInHandler

\* Queue._wakeup_next(self._getters) called on the event loop (by a
\* cancelled get()): the oldest waiting getter's future is resolved and
\* leaves _getters.  Nothing else runs on the loop meanwhile.
WakeupNext(c) ==
    IF getters[c] = <<>> THEN sess
    ELSE [sess EXCEPT ![Head(getters[c])].pc = "woken"]

\* Queue._wakeup_next(self._getters) called on a generation thread:
\* `waiter = waiters.popleft()`, the getter it takes out of _getters (0:
\* none waits).  A getter whose task was cancelled has left _getters.
PoppedWaiter(c) == IF getters[c] = <<>> THEN 0 ELSE Head(getters[c])

\* A variant that puts the item at the head of the queue.
put_nowait_front(c, item) ==
    /\ queue' = [queue EXCEPT ![c] = <<item>> \o @]
    /\ getters' = [getters EXCEPT ![c] = IF @ = <<>> THEN <<>> ELSE Tail(@)]

\* A variant for a queue of one slot whose put waits for room.
put_when_room(c, item) ==
    /\ queue[c] = <<>>
    /\ queue' = [queue EXCEPT ![c] = Append(@, item)]
    /\ getters' = [getters EXCEPT ![c] = IF @ = <<>> THEN <<>> ELSE Tail(@)]

\* Queue.put_nowait(item) on the queue of ChatInterface c's handler, called
\* on a generation thread, up to _wakeup_next's first `waiters.popleft()`:
\* the item is in the queue and the oldest getter is out of _getters, not
\* yet looked at.  asyncio.Queue is not thread-safe: the event loop runs
\* meanwhile.
put_nowait(c, item) ==
    /\ queue' = [queue EXCEPT ![c] = Append(@, item)]
    /\ getters' = [getters EXCEPT ![c] = IF @ = <<>> THEN <<>> ELSE Tail(@)]

\* A variant that reads the sources of the documents the ChatInterface
\* currently holds each time a token is yielded.
YieldedSourcesCurrent(se) ==
    CHOOSE us \in UniqueSources(current_source_docs[se.ci]) : TRUE

\* The sources value yielded with a token: the local unique_sources.
YieldedSources(se) == se.unique_sources

\* A response is suspended at each value it yields while the server sends
\* the chunk, and goes on when the server asks for the next one.

\* stream_chat_response's loop body for one (token, sources) pair, up to
\* `yield f"data: {token}"`.
OnToken(se, tok) ==
    [se EXCEPT !.pc = "token",
               !.events = Append(@, TokenEvent(tok, YieldedSources(se)))]

\* The loop body after the yield: `if sources and not collected_sources:
\* collected_sources = sources`, up to `await asyncio.sleep(0.01)`.
AfterToken(se) ==
    LET src == se.events[Len(se.events)].src
    IN  [se EXCEPT !.pc = "sleep",
                   !.collected_sources =
                       IF src # <<>> /\ @ = <<>> THEN src ELSE @]

\* `yield "data: [DONE]"`
YieldDone(se) == [se EXCEPT !.pc = "done", !.events = Append(@, DoneEvent)]

\* A variant that sends the end marker only after the sources.
OnEndWithSources(se) ==
    IF se.collected_sources # <<>>
    THEN [se EXCEPT !.pc = "sources",
                    !.events = Append(@, SourcesEvent(se.collected_sources))]
    ELSE [se EXCEPT !.pc = "closed"]

\* stream_chat_response after its loop: the sources when there are some,
\* else the end marker.
OnEnd(se) ==
    IF se.collected_sources # <<>>
    THEN [se EXCEPT !.pc = "sources",
                    !.events = Append(@, SourcesEvent(se.collected_sources))]
    ELSE YieldDone(se)

\* stream_chat_response's except branch, up to its first yield.
OnError(se, m) ==
    [se EXCEPT !.pc = "error", !.events = Append(@, ErrorEvent(m))]

\* The points at which a response is suspended.
Suspended ==
    {"start", "not_initialized", "not_found", "message", "wait", "woken",
     "token", "sleep", "sources", "error", "done"}

\* get_tokens: one evaluation of `await self.queue.get()` up to the point
\* where it returns an item or finds the queue empty.
get_tokens(s, se) ==
    LET items == queue[se.ci]
    IN  IF items = <<>>
        THEN /\ sess' = [sess EXCEPT ![s] = [se EXCEPT !.pc = "reg"]]
             /\ UNCHANGED queue
        ELSE /\ queue' = [queue EXCEPT ![se.ci] = Tail(items)]
             /\ sess' = [sess EXCEPT ![s] =
                    IF Head(items) = END THEN OnEnd(se) ELSE OnToken(se, Head(items))]

(* ------------------------------ actions -------------------------------- *)

\* History: a generation has failed, the stream it served has taken all it
\* produced, and that stream waits for more, has ended or was abandoned.
FailedBefore ==
    \E r \in Sessions :
        /\ worker[r].st = "failed"
        /\ queue[sess[r].ci] = <<>>
        /\ sess[r].pc \in {"wait", "closed", "cancelled"}

\* Requests are numbered in the order they arrive.
Arrives(s) ==
    /\ sess[s].pc = "idle"
    /\ \A r \in Sessions : r < s => sess[r].pc # "idle"
    /\ LoopIdle

\* api.handle_chat_stream (POST and GET /api/chat-stream).
handle_chat_stream(s, q) ==
    /\ entry = "api"
    /\ Arrives(s)
    /\ sess' = [sess EXCEPT ![s] =
         IF chat_interface = NoInterface
         THEN [@ EXCEPT !.pc = "not_initialized", !.query = q]
         ELSE IF ~check_knowledge_base_exists
         THEN [@ EXCEPT !.pc = "not_found", !.query = q]
         ELSE [@ EXCEPT !.pc = "start", !.query = q,
                        !.after_failure = FailedBefore]]
    /\ UNCHANGED << disk, job, reader, entry, splitter, vector_store, chat_interface, streaming_llm,
                    current_source_docs, queue, getters, worker, answer >>

\* A caller that iterates stream_chat_response(message) itself.
stream_chat_response(s, q) ==
    /\ entry = "direct"
    /\ Arrives(s)
    /\ sess' = [sess EXCEPT ![s] = [@ EXCEPT !.pc = "start", !.query = q,
                                              !.after_failure = FailedBefore]]
    /\ UNCHANGED << disk, job, reader, entry, splitter, vector_store, chat_interface, streaming_llm,
                    current_source_docs, queue, getters, worker, answer >>

\* stream_chat_response's first step: `chat_interface.get_streaming_response(
\* message)` on the ChatInterface in use, from the first request for a value
\* to its first `await self.queue.get()`: the readiness check, the loading
\* of the streaming model, the retrieval, the start of the generation and
\* the sources.  outcome is what the collaborators do: "load" and "search"
\* are _load_streaming_llm and similarity_search raising.
get_streaming_response(s, outcome) ==
    /\ sess[s].pc = "start"
    /\ LoopIdle
    /\ LET c == chat_interface
           se == [sess[s] EXCEPT !.ci = c]
       IN  IF ~Ready
           THEN /\ outcome = "ok"
                /\ sess' = [sess EXCEPT ![s] = OnError(se, "not_ready")]
                /\ UNCHANGED << streaming_llm, current_source_docs, queue, worker >>
           ELSE IF outcome = "load"
           THEN /\ streaming_llm[c] = None
                /\ sess' = [sess EXCEPT ![s] = OnError(se, "internal")]
                /\ UNCHANGED << streaming_llm, current_source_docs, queue, worker >>
           ELSE IF outcome = "search"
           THEN /\ streaming_llm' = [streaming_llm EXCEPT ![c] = "llm"]
                /\ sess' = [sess EXCEPT ![s] = OnError(se, "internal")]
                /\ UNCHANGED << current_source_docs, queue, worker >>
           ELSE LET docs == similarity_search(vector_store.chunks, sess[s].query, TopK)
                IN  /\ streaming_llm' = [streaming_llm EXCEPT ![c] = "llm"]
                    /\ current_source_docs' = [current_source_docs EXCEPT ![c] = docs]
                    /\ worker' = [worker EXCEPT ![s].st = "scheduled"]
                    /\ \E us \in UniqueSources(docs) :
                         get_tokens(s, [se EXCEPT !.docs = docs,
                                                  !.unique_sources = us])
    /\ UNCHANGED << disk, job, reader, entry, splitter, vector_store, chat_interface, getters, answer >>

\* The response goes on from the point it is suspended at.  After
\* `await asyncio.sleep(0.01)` or when its getter future was resolved:
\* the next `await self.queue.get()`.  After a yield: the statements up to
\* the next suspension; the two-item responses of handle_chat_stream give
\* their message, then the end marker.
resume(s) ==
    /\ sess[s].pc \in Suspended \ {"start", "wait"}
    /\ LoopIdle
    /\ IF sess[s].pc \in {"sleep", "woken"}
       THEN get_tokens(s, sess[s])
       ELSE /\ LET se == sess[s]
               IN  sess' = [sess EXCEPT ![s] =
                     CASE se.pc \in {"not_initialized", "not_found"} ->
                            [se EXCEPT !.events = <<MessageEvent(se.pc)>>,
                                       !.pc = "message"]
                       [] se.pc = "token" -> AfterToken(se)
                       [] se.pc \in {"message", "sources", "error"} -> YieldDone(se)
                       [] se.pc = "done" -> [se EXCEPT !.pc = "closed"]]
            /\ UNCHANGED queue
    /\ UNCHANGED << disk, job, reader, entry, splitter, vector_store, chat_interface, streaming_llm,
                    current_source_docs, getters, worker, answer >>

\* Queue.get found the queue empty: it appends its future to _getters and
\* suspends.
wait_for_item(s) ==
    /\ sess[s].pc = "reg"
    /\ getters' = [getters EXCEPT ![sess[s].ci] = Append(@, s)]
    /\ sess' = [sess EXCEPT ![s].pc = "wait"]
    /\ UNCHANGED << disk, job, reader, entry, splitter, vector_store, chat_interface, streaming_llm,
                    current_source_docs, queue, worker, answer >>

\* asyncio.to_thread: the task created by create_task runs on the loop and
\* hands streaming_llm.invoke to a thread of the pool.
to_thread(s) ==
    /\ worker[s].st = "scheduled"
    /\ LoopIdle
    /\ worker' = [worker EXCEPT ![s].st = "running"]
    /\ UNCHANGED << disk, job, reader, entry, splitter, vector_store, chat_interface, streaming_llm,
                    current_source_docs, queue, getters, sess, answer >>

\* StreamingCallbackHandler.on_llm_new_token, called on the generation
\* thread, up to put_nowait's first `waiters.popleft()`; the callback
\* returns here when no getter waits.  limit bounds the length of the
\* answer.
on_llm_new_token(s, limit) ==
    /\ worker[s].st = "running"
    /\ worker[s].waking = 0
    /\ worker[s].pushed < limit
    /\ put_nowait(sess[s].ci, <<s, worker[s].pushed + 1>>)
    /\ worker' = [worker EXCEPT ![s].pushed = @ + 1,
                                 ![s].waking = PoppedWaiter(sess[s].ci)]
    /\ UNCHANGED << disk, job, reader, entry, splitter, vector_store, chat_interface, streaming_llm,
                    current_source_docs, sess, answer >>

\* StreamingCallbackHandler.on_llm_end, called on the generation thread, up
\* to put_nowait's first `waiters.popleft()`; the callback returns here
\* when no getter waits.
on_llm_end(s) ==
    /\ worker[s].st = "running"
    /\ worker[s].waking = 0
    /\ put_nowait(sess[s].ci, END)
    /\ worker' = [worker EXCEPT
                    ![s].st = IF PoppedWaiter(sess[s].ci) = 0 THEN "done" ELSE "ending",
                    ![s].waking = PoppedWaiter(sess[s].ci)]
    /\ UNCHANGED << disk, job, reader, entry, splitter, vector_store, chat_interface, streaming_llm,
                    current_source_docs, sess, answer >>

\* _wakeup_next's loop on the generation thread from the getter it has
\* taken out of _getters: `if not waiter.done(): waiter.set_result(None);
\* break`, and the return of the callback.  The getter is resolved if it
\* still waits.  If its task was cancelled since the getter left _getters:
\* either the cancellation came after the done() test, set_result raises
\* InvalidStateError, which the callback manager logs and drops, and no
\* other getter is resolved; or it came before the test, and the loop goes
\* on to the next getter, which it resolves at once or, the event loop
\* running in between, in a later step.
set_result(s) ==
    /\ worker[s].waking # 0
    /\ LET w == worker[s].waking
           c == sess[s].ci
           returned == [worker EXCEPT ![s].waking = 0,
                                      ![s].st = IF @ = "ending" THEN "done" ELSE @]
       IN  IF sess[w].pc = "wait"
           THEN /\ sess' = [sess EXCEPT ![w].pc = "woken"]
                /\ worker' = returned
                /\ UNCHANGED getters
           ELSE \/ /\ worker' = returned
                   /\ UNCHANGED << sess, getters >>
                \/ /\ getters[c] # <<>>
                   /\ getters' = [getters EXCEPT ![c] = Tail(@)]
                   /\ \/ /\ sess' = [sess EXCEPT ![Head(getters[c])].pc = "woken"]
                         /\ worker' = returned
                      \/ /\ worker' = [worker EXCEPT ![s].waking = Head(getters[c])]
                         /\ UNCHANGED sess
    /\ UNCHANGED << disk, job, reader, entry, splitter, vector_store, chat_interface, streaming_llm,
                    current_source_docs, queue, answer >>

\* streaming_llm.invoke raises: the exception ends the thread and stays in
\* the task nobody awaits; on_llm_end is not called.
invoke_raises(s) ==
    /\ worker[s].st = "running"
    /\ worker[s].waking = 0
    /\ worker' = [worker EXCEPT ![s].st = "failed"]
    /\ UNCHANGED << disk, job, reader, entry, splitter, vector_store, chat_interface, streaming_llm,
                    current_source_docs, queue, getters, sess, answer >>

\* The client goes away: the response task is cancelled at the suspension
\* point it is at.  A get() that is cancelled takes its future out of
\* _getters; if the future was already resolved and the queue is not empty,
\* it passes the wake-up on.
disconnect(s) ==
    /\ sess[s].pc \in Suspended
    /\ LoopIdle
    /\ LET c == sess[s].ci
           bound == c # NoInterface
           passOn == bound /\ sess[s].pc = "woken" /\ queue[c] # <<>> /\ getters[c] # <<>>
           woke == IF passOn THEN WakeupNext(c) ELSE sess
       IN  /\ sess' = [woke EXCEPT ![s].pc = "cancelled"]
           /\ getters' = IF passOn THEN [getters EXCEPT ![c] = Tail(@)]
                         ELSE IF bound THEN [getters EXCEPT ![c] = Without(@, s)]
                         ELSE getters
    /\ UNCHANGED << disk, job, reader, entry, splitter, vector_store, chat_interface, streaming_llm,
                    current_source_docs, queue, worker, answer >>

\* ChatInterface.get_response; outcome is what the collaborators do:
\* "search" and "invoke" are similarity_search and self.llm.invoke raising.
get_response(q, outcome) ==
    /\ entry \in {"chat", "direct"}
    /\ LoopIdle
    /\ IF ~Ready
       THEN /\ outcome = "ok"
            /\ answer' = [NoAnswer EXCEPT !.status = "not_ready", !.query = q]
            /\ UNCHANGED current_source_docs
       ELSE IF outcome = "search"
       THEN /\ answer' = [NoAnswer EXCEPT !.status = "error", !.query = q]
            /\ UNCHANGED current_source_docs
       ELSE LET docs == similarity_search(vector_store.chunks, q, TopK)
            IN  /\ current_source_docs' =
                     [current_source_docs EXCEPT ![chat_interface] = docs]
                /\ IF outcome = "ok"
                   THEN \E us \in UniqueSources(docs) :
                          answer' = [status |-> "ok", query |-> q,
                                     docs |-> docs, sources |-> us]
                   ELSE answer' = [NoAnswer EXCEPT !.status = "error", !.query = q]
    /\ UNCHANGED << disk, job, reader, entry, splitter, vector_store, chat_interface, streaming_llm,
                    queue, getters, sess, worker >>

RECURSIVE PushedBy(_)
\* The tokens the generations of the requests S have put, in all.
PushedBy(S) ==
    IF S = {} THEN 0
    ELSE LET s == CHOOSE r \in S : TRUE
         IN  worker[s].pushed + PushedBy(S \ {s})

Next ==
    \/ \E s \in Sessions, q \in Queries : handle_chat_stream(s, q)
    \/ \E s \in Sessions, q \in Queries : stream_chat_response(s, q)
    \/ \E s \in Sessions, o \in {"ok", "load", "search"} : get_streaming_response(s, o)
    \/ \E s \in Sessions : resume(s)
    \/ \E s \in Sessions : wait_for_item(s)
    \/ \E s \in Sessions : to_thread(s)
    \/ \E s \in Sessions : PushedBy(Sessions) < MaxTotal /\ on_llm_new_token(s, MaxTotal)
    \/ \E s \in Sessions : on_llm_end(s)
    \/ \E s \in Sessions : set_result(s)
    \/ \E s \in Sessions : invoke_raises(s)
    \/ \E s \in Sessions : disconnect(s)
    \/ \E q \in Queries, o \in {"ok", "search", "invoke"} : get_response(q, o)

Spec == Init /\ [][Next]_vars

(* ---------------- one request at a time, nothing failing ---------------- *)

\* No stream is being served.
Quiet == \A s \in Sessions : sess[s].pc \in {"idle", "closed"}

NextSolo ==
    \/ \E s \in Sessions, q \in Queries : Quiet /\ handle_chat_stream(s, q)
    \/ \E s \in Sessions, q \in Queries : Quiet /\ stream_chat_response(s, q)
    \/ \E s \in Sessions : get_streaming_response(s, "ok")
    \/ \E s \in Sessions : resume(s)
    \/ \E s \in Sessions : wait_for_item(s)
    \/ \E s \in Sessions : to_thread(s)
    \/ \E s \in Sessions : on_llm_new_token(s, MaxAnswer)
    \/ \E s \in Sessions : on_llm_end(s)
    \/ \E s \in Sessions : set_result(s)

SpecSolo == Init /\ [][NextSolo]_vars

(* ------------- one request at a time, the client may go away ------------ *)

\* No response is being served: each has ended or was abandoned.
Settled == \A s \in Sessions : sess[s].pc \in {"idle", "closed", "cancelled"}

NextSeq ==
    \/ \E s \in Sessions, q \in Queries : Settled /\ handle_chat_stream(s, q)
    \/ \E s \in Sessions, q \in Queries : Settled /\ stream_chat_response(s, q)
    \/ \E s \in Sessions : get_streaming_response(s, "ok")
    \/ \E s \in Sessions : resume(s)
    \/ \E s \in Sessions : wait_for_item(s)
    \/ \E s \in Sessions : to_thread(s)
    \/ \E s \in Sessions : on_llm_new_token(s, MaxTokens)
    \/ \E s \in Sessions : on_llm_end(s)
    \/ \E s \in Sessions : set_result(s)
    \/ \E s \in Sessions : disconnect(s)

SpecSeq == Init /\ [][NextSeq]_vars

\* The generation thread is a thread of the pool, scheduled by the operating
\* system whatever the event loop does: a callback it has begun returns, and
\* a generation that nothing holds up comes to its end.
ThreadsRun ==
    \A s \in Sessions : WF_vars(on_llm_end(s)) /\ WF_vars(set_result(s))

SpecSeqFair == Init /\ [][NextSeq]_vars /\ ThreadsRun

(* --------------------------- processing PDFs --------------------------- *)

\* FAISS.add_documents after `self.index.add(vector)` and before
\* `self.docstore.add(...)`.
IndexAdded(chunks, documents) ==
    chunks \o [i \in DOMAIN documents |-> Chunk(Pending, documents[i].vec)]

\* The call ends with an exception: HTTP 500 in the api, a traceback in the
\* command line.
Raised(call) == [call EXCEPT !.pc = "idle", !.add = "raised", !.result = "raised"]

\* A variant that logs a failed save and carries on.
SaveFailedQuietly(call) == [call EXCEPT !.pc = "saved", !.save_failed = TRUE, !.add = "returned"]

\* An exception of os.makedirs or save_local leaves add_documents.
SaveFailed(call) == Raised([call EXCEPT !.save_failed = TRUE])

\* A variant that takes every directory to hold a PDF.
NeverEmpty(pdfs) == FALSE

\* `if not any(Path(pdf_dir).glob('*.pdf'))`: the directory holds no PDF.
NoPdfs(pdfs) == pdfs = <<>>

\* A variant in which a rebuild that fails leaves no index in memory.
StoreCleared == NoStore

\* `self.vector_store = FAISS.from_documents(...)` when from_documents
\* raises: the assignment does not happen.
StoreAfterFailedBuild == vector_store

\* api.process_pdfs and main.process_pdfs up to the first change
\* add_documents makes: the check for PDFs, process_directory, and the
\* branch of add_documents.  FAISS.from_documents raises on an empty list
\* (it reads embeddings[0]); what FAISS.add_documents does with one depends
\* on the installed faiss: it raises in index.add or adds nothing.
process_pdfs(force_rebuild, pdfs) ==
    /\ entry \in {"api", "build"}
    /\ job.pc = "idle"
    /\ job.n < MaxBuilds
    /\ entry = "build" => job.n = 0
    /\ LoopIdle
    /\ LET documents == process_directory(pdfs)
           rebuild == force_rebuild \/ vector_store = NoStore
           call == [NoJob EXCEPT !.n = job.n + 1,
                                 !.force_rebuild = force_rebuild,
                                 !.pdfs = pdfs,
                                 !.before = vector_store,
                                 !.disk_before = disk]
           adding == [call EXCEPT !.documents = documents,
                                   !.add = "running",
                                   !.target = IF rebuild THEN documents
                                              ELSE vector_store.chunks \o documents]
       IN  IF NoPdfs(pdfs)
           THEN /\ job' = [call EXCEPT !.result = "rejected"]
                /\ UNCHANGED vector_store
           ELSE IF rebuild
           THEN IF documents = <<>>
                THEN /\ job' = Raised(adding)
                     /\ vector_store' = StoreAfterFailedBuild
                ELSE /\ job' = [adding EXCEPT !.pc = "mutated"]
                     /\ vector_store' = Store(documents)
           ELSE IF documents = <<>>
                THEN /\ \/ job' = Raised(adding)
                        \/ job' = [adding EXCEPT !.pc = "mutated"]
                     /\ UNCHANGED vector_store
                ELSE /\ job' = [adding EXCEPT !.pc = "index_added"]
                     /\ vector_store' = Store(IndexAdded(vector_store.chunks, documents))
    /\ UNCHANGED << disk, reader, entry, splitter, chat_interface, streaming_llm,
                    current_source_docs, queue, getters, sess, worker, answer >>

\* A variant that saves the index as it was before the change.
IndexBeforeChange == job.before.chunks

\* What `self.vector_store.save_local(index_path)` writes: the index in memory.
IndexToSave == vector_store.chunks

\* FAISS.add_documents: the documents enter the docstore and
\* index_to_docstore_id.
docstore_add ==
    /\ job.pc = "index_added"
    /\ vector_store' = Store(job.target)
    /\ job' = [job EXCEPT !.pc = "mutated"]
    /\ UNCHANGED << disk, reader, entry, splitter, chat_interface, streaming_llm,
                    current_source_docs, queue, getters, sess, worker, answer >>

\* os.makedirs(index_path, exist_ok=True); it can fail only when it has to
\* create the directory.
makedirs(ok) ==
    /\ job.pc = "mutated"
    /\ ~ok => ~disk.dir
    /\ IF ok
       THEN /\ disk' = [disk EXCEPT !.dir = TRUE]
            /\ job' = [job EXCEPT !.pc = "dir"]
       ELSE /\ job' = SaveFailed(job)
            /\ UNCHANGED disk
    /\ UNCHANGED << vector_store, reader, entry, splitter, chat_interface, streaming_llm,
                    current_source_docs, queue, getters, sess, worker, answer >>

\* save_local writes each file in place, with no temporary file and
\* rename: the file is opened for writing, which empties it, and then
\* filled.  Between the two another process finds a file it cannot read.

\* save_local: faiss.write_index(self.index, .../index.faiss) up to its
\* opening of the file.  If the file cannot be opened the old one stays.
open_index(ok) ==
    /\ job.pc = "dir"
    /\ IF ok
       THEN /\ disk' = [disk EXCEPT !.faiss = Corrupt]
            /\ job' = [job EXCEPT !.pc = "faiss_open"]
       ELSE /\ job' = SaveFailed(job)
            /\ UNCHANGED disk
    /\ UNCHANGED << vector_store, reader, entry, splitter, chat_interface, streaming_llm,
                    current_source_docs, queue, getters, sess, worker, answer >>

\* save_local: faiss.write_index fills index.faiss.  A write that fails
\* leaves the file unreadable.
write_index(ok) ==
    /\ job.pc = "faiss_open"
    /\ IF ok
       THEN /\ disk' = [disk EXCEPT !.faiss = FileOf(Vectors(IndexToSave))]
            /\ job' = [job EXCEPT !.pc = "faiss"]
       ELSE /\ job' = SaveFailed(job)
            /\ UNCHANGED disk
    /\ UNCHANGED << vector_store, reader, entry, splitter, chat_interface, streaming_llm,
                    current_source_docs, queue, getters, sess, worker, answer >>

\* save_local: `open(.../index.pkl, "wb")`.  If the file cannot be opened
\* the old one stays.
open_docstore(ok) ==
    /\ job.pc = "faiss"
    /\ IF ok
       THEN /\ disk' = [disk EXCEPT !.pkl = Corrupt]
            /\ job' = [job EXCEPT !.pc = "pkl_open"]
       ELSE /\ job' = SaveFailed(job)
            /\ UNCHANGED disk
    /\ UNCHANGED << vector_store, reader, entry, splitter, chat_interface, streaming_llm,
                    current_source_docs, queue, getters, sess, worker, answer >>

\* save_local: pickle.dump((self.docstore, self.index_to_docstore_id), f)
\* fills index.pkl; then add_documents returns.  A dump that fails leaves
\* the file unreadable.
write_docstore(ok) ==
    /\ job.pc = "pkl_open"
    /\ IF ok
       THEN /\ disk' = [disk EXCEPT !.pkl = FileOf(Docstore(IndexToSave))]
            /\ job' = [job EXCEPT !.pc = "saved", !.add = "returned"]
       ELSE /\ job' = SaveFailed(job)
            /\ UNCHANGED disk
    /\ UNCHANGED << vector_store, reader, entry, splitter, chat_interface, streaming_llm,
                    current_source_docs, queue, getters, sess, worker, answer >>

\* After add_documents: the api builds a new ChatInterface (loading the model
\* can raise), verifies and answers "success"; the command line reports.
finish(ok) ==
    /\ job.pc = "saved"
    /\ ~ok => entry = "api"
    /\ job' = [job EXCEPT !.pc = "idle", !.result = IF ok THEN "ok" ELSE "raised"]
    /\ chat_interface' = IF ok /\ entry = "api" THEN job.n + 1 ELSE chat_interface
    /\ UNCHANGED << disk, vector_store, reader, entry, splitter, streaming_llm,
                    current_source_docs, queue, getters, sess, worker, answer >>

\* add_documents is between its first change and its return.
Mutating ==
    job.pc \in {"index_added", "mutated", "dir", "faiss_open", "faiss", "pkl_open"}

\* Another process starts on the same directory: KnowledgeBase.__init__ up
\* to load_local's `faiss.read_index(.../index.faiss)`.  Without the
\* directory, or when the file cannot be read, the load ends here.
fresh_process_loads ==
    /\ reader.pc = "idle"
    /\ LET previous == load_vector_store(IF Mutating THEN job.disk_before ELSE disk).store
           began == [reader EXCEPT !.found = disk, !.n = job.n,
                                   !.during = Mutating,
                                   !.previous = previous,
                                   !.next = IF Mutating THEN Store(job.target)
                                            ELSE previous]
       IN  reader' = IF disk.dir /\ disk.faiss.st = "ok"
                     THEN [began EXCEPT !.pc = "index_read"]
                     ELSE [began EXCEPT !.pc = "up",
                                        !.ret = load_vector_store(disk).ret,
                                        !.store = load_vector_store(disk).store]
    /\ UNCHANGED << disk, job, vector_store, entry, splitter, chat_interface, streaming_llm,
                    current_source_docs, queue, getters, sess, worker, answer >>

\* load_local's `pickle.load` of index.pkl, and the return of
\* _load_vector_store: the store is built from the index read before and
\* the docstore read now.
fresh_process_reads_docstore ==
    /\ reader.pc = "index_read"
    /\ LET found == [reader.found EXCEPT !.pkl = disk.pkl]
           loaded == load_vector_store(found)
           during == reader.during \/ Mutating \/ job.n # reader.n
       IN  reader' = [reader EXCEPT
                        !.pc = "up", !.found = found,
                        !.ret = loaded.ret, !.store = loaded.store,
                        !.during = during,
                        !.next = IF during /\ job.add # "none"
                                 THEN Store(job.target) ELSE reader.previous]
    /\ UNCHANGED << disk, job, vector_store, entry, splitter, chat_interface, streaming_llm,
                    current_source_docs, queue, getters, sess, worker, answer >>

\* GET /status
get_status == IF check_knowledge_base_exists THEN "ready" ELSE "not_ready"

\* What a process can find in data/embeddings/faiss_index when it starts:
\* nothing, a saved index, a directory without its files, an index whose
\* docstore file is damaged.
DiskStates ==
    { NoDisk, Saved(StoredIndex),
      [dir |-> TRUE, faiss |-> NoFile, pkl |-> NoFile],
      [Saved(StoredIndex) EXCEPT !.pkl = Corrupt] }

\* The server of api.py ("api") or main.py's process-pdfs command ("build")
\* starts: KnowledgeBase.__init__ loads what the disk holds, and
\* api.startup_event builds the chat interface iff an index was loaded.
InitKB ==
    /\ entry \in {"api", "build"}
    /\ disk \in DiskStates
    /\ vector_store = load_vector_store(disk).store
    /\ chat_interface = IF entry = "api" /\ check_knowledge_base_exists THEN 1 ELSE NoInterface
    /\ NewInterfaces
    /\ sess = [s \in Sessions |-> NoSession]
    /\ worker = [s \in Sessions |-> NoWorker]
    /\ answer = NoAnswer
    /\ job = NoJob
    /\ reader = NoReader
    /\ splitter = NoSplitter

\* The server with one chat-stream request, made before, while or after PDFs
\* are processed, or the command.
NextKB ==
    \/ \E q \in Queries : handle_chat_stream(1, q)
    \/ get_streaming_response(1, "ok")
    \/ resume(1)
    \/ wait_for_item(1)
    \/ to_thread(1)
    \/ on_llm_new_token(1, MaxTokens)
    \/ on_llm_end(1)
    \/ set_result(1)
    \/ \E f \in BOOLEAN, pdfs \in Directories : process_pdfs(f, pdfs)
    \/ docstore_add
    \/ \E ok \in BOOLEAN : makedirs(ok)
    \/ \E ok \in BOOLEAN : open_index(ok)
    \/ \E ok \in BOOLEAN : write_index(ok)
    \/ \E ok \in BOOLEAN : open_docstore(ok)
    \/ \E ok \in BOOLEAN : write_docstore(ok)
    \/ \E ok \in BOOLEAN : finish(ok)

SpecKB == InitKB /\ [][NextKB]_vars

(* ----------------------------- splitting a page ------------------------- *)

\* PDFProcessor.process_pdf: text_splitter.split_documents splits the text of
\* each page on its own.
split_documents ==
    /\ splitter.pc = "new"
    /\ splitter' =
         [splitter EXCEPT !.pc = "done",
                          !.chunks = split_text(splitter.text, 1, Len(splitter.text),
                                                Separators, splitter.chunk_size,
                                                splitter.chunk_overlap)]
    /\ UNCHANGED << entry, vector_store, chat_interface, streaming_llm,
                    current_source_docs, queue, getters, sess, worker, answer,
                    disk, job, reader >>

\* PDFProcessor(chunk_size, chunk_overlap) with chunk_overlap < chunk_size,
\* about to split a page.
InitSplit ==
    /\ \E t \in Texts, size \in 2..MaxSize :
         \E overlap \in 0..(size - 1) :
             splitter = [pc |-> "new", text |-> t, chunk_size |-> size,
                         chunk_overlap |-> overlap, chunks |-> <<>>]
    /\ entry = "build"
    /\ disk = NoDisk
    /\ vector_store = NoStore
    /\ chat_interface = NoInterface
    /\ NewInterfaces
    /\ sess = [s \in Sessions |-> NoSession]
    /\ worker = [s \in Sessions |-> NoWorker]
    /\ answer = NoAnswer
    /\ job = NoJob
    /\ reader = NoReader

NextSplit == split_documents

SpecSplit == InitSplit /\ [][NextSplit]_vars

(* ------------------------------ properties ----------------------------- *)

RECURSIVE TokensOf(_)
\* The tokens of a response's token events, in the order sent.
TokensOf(events) ==
    IF events = <<>> THEN <<>>
    ELSE (IF Head(events).t = "token" THEN <<Head(events).tok>> ELSE <<>>)
         \o TokensOf(Tail(events))

\* The tokens the model has generated for request s, in the order generated.
Generated(s) == [i \in 1..worker[s].pushed |-> <<s, i>>]

IsPrefix(a, b) == Len(a) <= Len(b) /\ SubSeq(b, 1, Len(a)) = a

\* The response of request s ran to its end.
Closed(s) == sess[s].pc = "closed"

\* C1: with one request at a time and no failure, the tokens a stream has
\* delivered are at every moment the first tokens its generation pushed, in
\* the order pushed, and once the stream has ended they are all of them.
C1_TokensInOrder ==
    \A s \in Sessions :
        /\ IsPrefix(TokensOf(sess[s].events), Generated(s))
        /\ Closed(s) => TokensOf(sess[s].events) = Generated(s)

\* A stream that ended after delivering an answer of several tokens.
C1_Witness ==
    \E s \in Sessions :
        /\ Closed(s)
        /\ worker[s].st = "done"
        /\ Len(TokensOf(sess[s].events)) >= 2

\* Nothing is in the queue and no generation is scheduled or running: no
\* item will reach a waiting consumer unless a new request is made.
NothingToCome ==
    /\ \A c \in Interfaces : queue[c] = <<>>
    /\ \A r \in Sessions : worker[r].st \notin {"scheduled", "running", "ending"}

\* C2: a stream whose generation failed still ends: once nothing is left to
\* come, its consumer is not waiting on the token queue.
C2_FailedStreamEnds ==
    \A s \in Sessions :
        worker[s].st = "failed" /\ NothingToCome => sess[s].pc # "wait"

\* C3: a stream delivers only tokens generated for its own request, and it
\* ends on the end signal of its own generation.
C3_OwnItemsOnly ==
    \A s \in Sessions :
        /\ \A tok \in Range(TokensOf(sess[s].events)) : tok[1] = s
        /\ Closed(s) /\ worker[s].st # "none" => worker[s].st \in {"ending", "done"}

\* C4: at most one generation call is executing on the streaming model.
C4_OneGenerationAtATime ==
    Cardinality({s \in Sessions : worker[s].st \in {"running", "ending"}}) <= 1

DoneCount(events) == Cardinality({i \in DOMAIN events : events[i] = DoneEvent})

\* C5: a response that ran to its end ends with [DONE], sent once; no
\* response sends anything after [DONE].
C5_DoneLast ==
    \A s \in Sessions :
        LET ev == sess[s].events
        IN  /\ Closed(s) => /\ ev # <<>>
                            /\ ev[Len(ev)] = DoneEvent
                            /\ DoneCount(ev) = 1
            /\ \A i \in DOMAIN ev : ev[i] = DoneEvent => i = Len(ev)

\* One response ended on an error and another after delivering tokens.
C5_Witness ==
    \E s, r \in Sessions :
        /\ Closed(s) /\ Closed(r)
        /\ \E i \in DOMAIN sess[s].events : sess[s].events[i].t = "error"
        /\ TokensOf(sess[r].events) # <<>>

HasError(events) == \E i \in DOMAIN events : events[i].t = "error"

\* C6: an error while a stream is served reaches the caller as an error
\* event followed by [DONE] and nothing else: every error event sent is the
\* last but one, before [DONE]; and a stream whose generation failed has sent
\* one once nothing is left to come.
C6_ErrorThenDone ==
    \A s \in Sessions :
        LET ev == sess[s].events
        IN  /\ \A i \in DOMAIN ev :
                   ev[i].t = "error" =>
                       /\ i + 1 >= Len(ev)
                       /\ i + 1 = Len(ev) => ev[i + 1] = DoneEvent
                       /\ Closed(s) => i + 1 = Len(ev)
            /\ worker[s].st = "failed" /\ NothingToCome
                   /\ sess[s].pc \in {"wait", "closed"}
               => HasError(ev)

\* The part of C6 that concerns the errors stream_chat_response catches.
ErrorEventsWellFormed ==
    \A s \in Sessions : \A i \in DOMAIN sess[s].events :
        sess[s].events[i].t = "error" =>
            /\ i + 1 >= Len(sess[s].events)
            /\ i + 1 = Len(sess[s].events) => sess[s].events[i + 1] = DoneEvent
            /\ Closed(s) => i + 1 = Len(sess[s].events)

\* C7: a stream query made after a generation failed (and after the failed
\* stream took all that generation produced) delivers the tokens generated
\* for it, and when it has ended it delivered all of them and its own
\* generation has ended (the later query's own generation started and did
\* not fail).
C7_LaterQueryUnaffected ==
    \A s \in Sessions :
        sess[s].after_failure /\ worker[s].st \notin {"none", "failed"} =>
            /\ IsPrefix(TokensOf(sess[s].events), Generated(s))
            /\ Closed(s) => /\ TokensOf(sess[s].events) = Generated(s)
                            /\ worker[s].st \in {"ending", "done"}

\* C8: without a loaded index nothing is retrieved and no model is invoked:
\* get_response and get_streaming_response fail as not ready, and the
\* chat-stream endpoint answers that the knowledge base is not initialized,
\* then [DONE].
C8_NotReadyFirst ==
    ~check_knowledge_base_exists =>
        /\ answer.status \in {"none", "not_ready"}
        /\ answer.docs = <<>>
        /\ \A c \in Interfaces : streaming_llm[c] = None
        /\ \A s \in Sessions :
            /\ worker[s].st = "none"
            /\ sess[s].docs = <<>>
            /\ LET refusal == IF entry = "api"
                              THEN <<MessageEvent("not_initialized"), DoneEvent>>
                              ELSE <<ErrorEvent("not_ready"), DoneEvent>>
               IN  /\ IsPrefix(sess[s].events, refusal)
                   /\ Closed(s) => sess[s].events = refusal
            /\ sess[s].pc \in {"idle", "start", "not_initialized", "message",
                               "error", "done", "closed", "cancelled"}

\* Without an index, a synchronous answer and a stream were both asked for
\* and both were refused.
C8_Witness ==
    /\ ~check_knowledge_base_exists
    /\ answer.status = "not_ready"
    /\ \E s \in Sessions : sess[s].events = <<ErrorEvent("not_ready"), DoneEvent>>

\* Without an index, the endpoint answered a request.
C8_WitnessEndpoint ==
    /\ ~check_knowledge_base_exists
    /\ entry = "api"
    /\ \E s \in Sessions : Closed(s)

\* The distinct sources of a list of documents.
DistinctSources(docs) == {d.source : d \in Range(docs)} \ {NoSource}

\* C9: all the tokens of one stream come with the same sources, those of the
\* documents the stream's own retrieval returned, whatever other requests
\* retrieve meanwhile.
C9_SourcesFixed ==
    \A s \in Sessions : \A i \in DOMAIN sess[s].events :
        sess[s].events[i].t = "token" =>
            /\ Range(sess[s].events[i].src) = DistinctSources(sess[s].docs)
            /\ \A j \in DOMAIN sess[s].events :
                   sess[s].events[j].t = "token"
                       => sess[s].events[j].src = sess[s].events[i].src

\* A stream delivered two tokens while the documents the ChatInterface holds
\* are those another request retrieved for another question, with other
\* sources.
C9_Witness ==
    \E s, r \in Sessions :
        /\ Len(TokensOf(sess[s].events)) >= 2
        /\ sess[r].query # sess[s].query
        /\ current_source_docs[sess[s].ci] = sess[r].docs
        /\ DistinctSources(sess[r].docs) # DistinctSources(sess[s].docs)

\* The list holds every source of the documents, no other, none twice.
ExactlySources(list, docs) ==
    /\ Range(list) = DistinctSources(docs)
    /\ Cardinality(Range(list)) = Len(list)

\* C10: the sources given with an answer, synchronous or streamed, are the
\* distinct sources of the documents retrieved for it, each once.
C10_SourcesOfRetrieval ==
    /\ answer.status = "ok" => ExactlySources(answer.sources, answer.docs)
    /\ \A s \in Sessions : \A i \in DOMAIN sess[s].events :
        sess[s].events[i].t \in {"token", "sources"} =>
            ExactlySources(sess[s].events[i].src, sess[s].docs)

\* A synchronous answer whose documents include two of one file and one
\* without a source.
C10_Witness ==
    /\ answer.status = "ok"
    /\ Len(SourcesOf(answer.docs)) > Len(answer.sources)
    /\ \E d \in Range(answer.docs) : d.source = NoSource

\* A streamed answer whose documents include two of one file, with its
\* sources event sent.
C10_WitnessStream ==
    \E s \in Sessions :
        /\ Len(SourcesOf(sess[s].docs)) > Len(sess[s].unique_sources)
        /\ \E i \in DOMAIN sess[s].events : sess[s].events[i].t = "sources"

(* ------------------- properties of the knowledge base ------------------- *)

\* add_documents has returned normally and no later call has started.
AddReturned == job.add = "returned"

\* C11: after an add_documents call that returned normally, the directory
\* holds exactly what a complete save of the in-memory index writes, loading
\* it in a fresh process succeeds and gives the same chunks in the same
\* order, and every question gets the same search result from both.
C11_PersistenceFidelity ==
    AddReturned =>
        /\ disk = Saved(vector_store.chunks)
        /\ load_vector_store(disk) = [ret |-> "True", store |-> vector_store]
        /\ job.pc = "saved" =>
             \A q \in Queries :
                 similarity_search(load_vector_store(disk).store.chunks, q, TopK)
                     = similarity_search(vector_store.chunks, q, TopK)

\* Chunks were appended to an index that was loaded from disk, the call
\* returned, and a process started afterwards holds the grown index.
C11_Witness ==
    /\ AddReturned
    /\ ~job.force_rebuild
    /\ job.before = Store(StoredIndex)
    /\ job.documents # <<>>
    /\ reader.pc = "up"
    /\ reader.store = vector_store
    /\ Len(reader.store.chunks) > Len(StoredIndex)

\* add_documents was called and has ended, normally or with an exception.
AddEnded == job.add \in {"returned", "raised"}

\* C12: when add_documents has ended, the index holds the earlier chunks
\* followed by the given ones if force_rebuild was false and an index
\* existed, and exactly the given chunks otherwise.
C12_AppendOrReplace ==
    AddEnded =>
        vector_store.chunks =
            IF job.force_rebuild \/ job.before = NoStore
            THEN job.documents
            ELSE job.before.chunks \o job.documents

\* The same for calls that are given at least one chunk (holds).
NonEmptyAppendOrReplace ==
    AddEnded /\ job.documents # <<>> =>
        vector_store.chunks =
            IF job.force_rebuild \/ job.before = NoStore
            THEN job.documents
            ELSE job.before.chunks \o job.documents

\* C13: add_documents called with an empty list returns normally and leaves
\* the in-memory index and the directory as they were.
C13_EmptyAddIsNoOp ==
    AddEnded /\ job.documents = <<>> =>
        /\ job.add = "returned"
        /\ vector_store = job.before
        /\ disk = job.disk_before

\* C14: a process that loads the index while add_documents is changing it
\* obtains the complete index from before the call or the complete index the
\* call produces.
C14_ReaderSeesWholeIndex ==
    reader.pc = "up" /\ reader.during =>
        reader.store \in {reader.previous, reader.next}

\* C15: a request's similarity search is a step taken only while no
\* add_documents call is between its first change of the index and its
\* return, so it reads the index from before or from after the change.
C15_SearchNotDuringMutation ==
    [][(\E s \in Sessions : sess[s].pc = "start" /\ sess'[s].pc \notin {"start", "cancelled"})
          => ~Mutating]_vars

\* A request that arrived on the old index got, after chunks were appended,
\* a retrieval that contains an appended chunk and nothing half-added.
C15_Witness ==
    /\ job.result = "ok"
    /\ ~job.force_rebuild
    /\ job.before = Store(StoredIndex)
    /\ \E i \in DOMAIN sess[1].docs : sess[1].docs[i].source = "c.pdf"
    /\ \A i \in DOMAIN sess[1].docs : sess[1].docs[i].source # Pending

\* C16: when os.makedirs or save_local failed, add_documents ended with an
\* exception and so did the call that made it; add_documents never returned.
C16_SaveFailureSurfaces ==
    job.save_failed =>
        /\ job.pc = "idle"
        /\ job.add = "raised"
        /\ job.result = "raised"

\* A write failed after the index in memory had changed: the caller got the
\* exception, and the directory does not hold the index in memory.
C16_Witness ==
    /\ job.save_failed
    /\ job.add = "raised"
    /\ vector_store # job.before
    /\ disk # Saved(vector_store.chunks)

\* C17: loading raises nothing; it returns True exactly when it left an index
\* in memory, and when the directory or a file is missing or a file cannot
\* be read it returns False and leaves vector_store None.
C17_LoadNeverRaises ==
    reader.pc = "up" =>
        /\ reader.ret \in {"True", "False"}
        /\ reader.ret = "True" <=> reader.store # NoStore
        /\ reader.ret = "True" => reader.store = load_local(reader.found)
        /\ (~reader.found.dir \/ ~CanLoad(reader.found)) =>
               reader.ret = "False" /\ reader.store = NoStore

\* A process started on a directory holding an unreadable file.
C17_Witness ==
    /\ reader.pc = "up"
    /\ reader.found.dir
    /\ Corrupt \in {reader.found.faiss, reader.found.pkl}
    /\ reader.ret = "False"

RECURSIVE ChunksOfReadable(_)
\* The chunks of the readable PDFs, file after file.
ChunksOfReadable(pdfs) ==
    IF pdfs = <<>> THEN <<>>
    ELSE (IF Head(pdfs).ok
          THEN [i \in DOMAIN Head(pdfs).vecs |-> Chunk(Head(pdfs).name, Head(pdfs).vecs[i])]
          ELSE <<>>)
         \o ChunksOfReadable(Tail(pdfs))

\* C18: process_directory returns the chunks of every PDF that could be
\* processed, in the order of the files, and nothing from a PDF that failed.
C18_FailedDocumentsSkipped ==
    job.add # "none" =>
        /\ job.documents = ChunksOfReadable(job.pdfs)
        /\ \A i \in DOMAIN job.documents :
               \E k \in DOMAIN job.pdfs :
                   job.pdfs[k].ok /\ job.pdfs[k].name = job.documents[i].source

\* A batch with an unreadable PDF between two readable ones gave the chunks
\* of both.
C18_Witness ==
    /\ job.add # "none"
    /\ \E k \in DOMAIN job.pdfs : ~job.pdfs[k].ok
    /\ \E i, j \in DOMAIN job.documents :
           i < j /\ job.documents[i].source = "c.pdf" /\ job.documents[j].source = "d.pdf"

\* C19: while the server processes PDFs the status is "processing".
C19_ProcessingReported ==
    entry = "api" /\ job.pc # "idle" => get_status = "processing"

\* Blocking work is executing: a generation or an index build.
BlockingWork ==
    \/ \E s \in Sessions : worker[s].st \in {"running", "ending"}
    \/ job.pc # "idle"

\* C20: while a generation or an index build is executing in the server, the
\* event loop is not held by it.
C20_LoopStaysFree ==
    entry = "api" /\ BlockingWork => ~LoopInHandler

(* ------------------------- an abandoned stream -------------------------- *)

\* C21: once the client of a stream has gone away, the stream's consumer
\* takes nothing from the queue and sends nothing more, and the generation
\* still runs to its end: whatever the queue holds and whoever waits for it
\* or has stopped waiting, a generation thread that is running puts its end
\* signal and returns.
C21_CancelledStopsPulling ==
    /\ [][\A s \in Sessions : sess[s].pc = "cancelled" => sess'[s] = sess[s]]_vars
    /\ \A s \in Sessions : worker[s].st = "running" ~> worker[s].st = "done"

\* The client went away, and the generation has since put a token and its
\* end signal on the queue.
C21_Witness ==
    \E s \in Sessions :
        /\ sess[s].pc = "cancelled"
        /\ worker[s].st = "done"
        /\ worker[s].pushed > 0
        /\ TokensOf(sess[s].events) = <<>>

(* ------------------------------ the chunks ------------------------------ *)

\* The text of the i-th chunk returned.
ChunkText(i) == SubSeq(splitter.text, splitter.chunks[i].from, splitter.chunks[i].to)

\* The last k characters of a, the first k characters of b.
Trailing(a, k) == SubSeq(a, Len(a) - k + 1, Len(a))

Leading(b, k) == SubSeq(b, 1, k)

\* C22: every chunk is at most chunk_size long, and the trailing
\* chunk_overlap characters of every chunk but the last (all of it, if it is
\* shorter) are the leading characters of the next chunk.
C22_OverlapInvariant ==
    splitter.pc = "done" =>
        \A i \in DOMAIN splitter.chunks :
            /\ Len(ChunkText(i)) <= splitter.chunk_size
            /\ i < Len(splitter.chunks) =>
                 LET k == Min(splitter.chunk_overlap, Len(ChunkText(i)))
                 IN  /\ Len(ChunkText(i + 1)) >= k
                     /\ Trailing(ChunkText(i), k) = Leading(ChunkText(i + 1), k)

\* What the splitter does ensure (holds): every chunk is at most
\* chunk_size long; the chunks are
\* pieces of the text, none starting or ending before the one before it, and
\* hold every character of it that is not whitespace; a chunk starts at most
\* chunk_overlap characters before the end of the chunk before it, and
\* exactly that many when the text holds no whitespace.
OverlapAtMost ==
    splitter.pc = "done" =>
        LET chunks == splitter.chunks
            n == Len(chunks)
        IN  /\ \A i \in 1..n : Len(ChunkText(i)) <= splitter.chunk_size
            /\ \A p \in DOMAIN splitter.text :
                   splitter.text[p] \notin Whitespace =>
                       \E i \in 1..n : chunks[i].from <= p /\ p <= chunks[i].to
            /\ \A i \in 1..(n - 1) :
                   /\ chunks[i].from <= chunks[i + 1].from
                   /\ chunks[i].to <= chunks[i + 1].to
                   /\ chunks[i].to - chunks[i + 1].from + 1 <= splitter.chunk_overlap
                   /\ Range(splitter.text) \cap Whitespace = {} =>
                        /\ chunks[i].to - chunks[i + 1].from + 1 = splitter.chunk_overlap
                        /\ Trailing(ChunkText(i), splitter.chunk_overlap)
                             = Leading(ChunkText(i + 1), splitter.chunk_overlap)

\* A text of two words was split, with an overlap asked for, into chunks
\* that share nothing.
SplitWithoutOverlap ==
    /\ splitter.pc = "done"
    /\ splitter.chunk_overlap > 0
    /\ Len(splitter.chunks) = 2
    /\ splitter.chunks[1].to < splitter.chunks[2].from
    /\ " " \in Range(splitter.text)

(* -------------------------- the sources event -------------------------- *)

\* The places of the SOURCES events in a response.
SourcesAt(events) == {i \in DOMAIN events : events[i].t = "sources"}

\* C23: a stream that ran to its end on a retrieval with at least one source
\* holds exactly one SOURCES event, it lists the sources of that retrieval,
\* and it is the event before [DONE], however many tokens were generated.
C23_SourcesBeforeDone ==
    \A s \in Sessions :
        (Closed(s) /\ DistinctSources(sess[s].docs) # {} /\ ~HasError(sess[s].events)) =>
            LET events == sess[s].events
                n == Len(events)
            IN  /\ SourcesAt(events) = {n - 1}
                /\ Range(events[n - 1].src) = DistinctSources(sess[s].docs)
                /\ events[n] = DoneEvent

\* The same for the streams that delivered at least one token (holds when
\* the requests come one at a time).
SourcesAfterTokens ==
    \A s \in Sessions :
        (Closed(s) /\ DistinctSources(sess[s].docs) # {} /\ TokensOf(sess[s].events) # <<>>) =>
            LET events == sess[s].events
                n == Len(events)
            IN  /\ SourcesAt(events) = {n - 1}
                /\ Range(events[n - 1].src) = DistinctSources(sess[s].docs)
                /\ events[n] = DoneEvent

(* ----------------------- after an abandoned stream ---------------------- *)

\* Request s came after a request whose client went away.
AfterAbandoned(s) ==
    /\ sess[s].pc # "idle"
    /\ \E r \in Sessions : r < s /\ sess[r].pc = "cancelled"

\* C24: with the requests coming one at a time, a stream that follows an
\* abandoned one delivers only tokens generated for its own question, and
\* when it has ended it has delivered all of them.
C24_NoStaleTokens ==
    \A s \in Sessions :
        AfterAbandoned(s) =>
            /\ \A i \in DOMAIN sess[s].events :
                   sess[s].events[i].t = "token" => sess[s].events[i].tok[1] = s
            /\ Closed(s) => TokensOf(sess[s].events) = Generated(s)

(* ------------------------ processing PDFs, alone ------------------------ *)

\* The process-pdfs requests of a server, or the command, with no chat
\* request, while another process starts on the same directory.
NextBuild ==
    \/ \E f \in BOOLEAN, pdfs \in Directories : process_pdfs(f, pdfs)
    \/ docstore_add
    \/ \E ok \in BOOLEAN : makedirs(ok)
    \/ \E ok \in BOOLEAN : open_index(ok)
    \/ \E ok \in BOOLEAN : write_index(ok)
    \/ \E ok \in BOOLEAN : open_docstore(ok)
    \/ \E ok \in BOOLEAN : write_docstore(ok)
    \/ \E ok \in BOOLEAN : finish(ok)
    \/ fresh_process_loads
    \/ fresh_process_reads_docstore

SpecBuild == InitKB /\ [][NextBuild]_vars

(* ------------------------- status and readiness ------------------------- *)

\* C25: in the api server, between requests, a status of "ready" means the
\* chat interface exists, so a chat-stream request is not answered with the
\* not-initialized message.
C25_ReadyMeansInitialized ==
    (entry = "api" /\ job.pc = "idle" /\ get_status = "ready") => chat_interface # NoInterface

\* C26: once check_knowledge_base_exists is true it stays true through every
\* step of every later add_documents call, whether the call succeeds or
\* raises and whatever its force_rebuild flag.
C26_ReadinessMonotone ==
    [][check_knowledge_base_exists => check_knowledge_base_exists']_vars

C26_Witness ==
    /\ job.result = "raised"
    /\ job.force_rebuild
    /\ job.before # NoStore
    /\ check_knowledge_base_exists

\* C27: a process-pdfs call that finds no PDF in the directory is rejected and
\* leaves the index in memory, the saved index and the chat interface as
\* they were.
C27_EmptyDirectoryRejected ==
    [][(job'.n # job.n /\ job'.pdfs = <<>>) =>
           /\ job'.result = "rejected"
           /\ job'.pc = "idle"
           /\ UNCHANGED << vector_store, disk, chat_interface >>]_vars

C27_Witness ==
    /\ job.result = "rejected"
    /\ job.pdfs = <<>>
    /\ vector_store # NoStore
    /\ chat_interface # NoInterface
    /\ disk = job.disk_before

====
